---- MODULE Spec2Model ----
(***************************************************************************)
(* languages-rs: Value parsing (src/src/value.rs), Config                  *)
(* (src/src/config.rs), LanguageTexts (src/src/languages/language_texts.rs)*)
(* the Languages cache (src/src/languages.rs) and load (src/src/lib.rs).   *)
(***************************************************************************)
EXTENDS Integers, Sequences, FiniteSets, TLC

VARIABLES
    feature,        \* the cargo feature the crate was built with
    fs,             \* the file system: path -> entry
    text,           \* the raw text handed to Value::from_string
    configuration,  \* the caller's Config (NoConfig before one is built)
    languages,      \* the caller's Languages instance (NoInstance before)
    readCodes,      \* the codes whose file the instance has read
    loadedCodes,    \* the codes whose file the instance has read with an Ok result
    firstOk,        \* per language code: the first Ok result of try_get_language
    callers,        \* per thread inside try_get_language: its position and locals
    last            \* the last operation: its arguments, result and file accesses

vars == <<feature, fs, text, configuration, languages, readCodes, loadedCodes, firstOk,
          callers, last>>

(***************************************************************************)
(* Bounds and input sets.                                                  *)
(***************************************************************************)
MaxArrayLen == 2
MaxLangs == 2

Codes == {"en", "es"}
Keys == {"greeting", "nums", "missing"}
Features == {"with-json", "with-toml", "none"}

Min(S) == CHOOSE x \in S : \A y \in S : x <= y
SeqsUpTo(S, n) == UNION {[1..k -> S] : k \in 0..n}

(***************************************************************************)
(* Results: anyhow::Result<T>, plus the panic that unwinds the caller.     *)
(***************************************************************************)
Ok(v) == [kind |-> "Ok", val |-> v]
Err(e) == [kind |-> "Err", err |-> e]
Panic(m) == [kind |-> "Panic", msg |-> m]
None == [some |-> FALSE]
Some(v) == [some |-> TRUE, val |-> v]

(***************************************************************************)
(* Value (value.rs:46-51).                                                  *)
(***************************************************************************)
String(s) == [t |-> "String", s |-> s]
Array(a) == [t |-> "Array", a |-> a]
Object(o) == [t |-> "Object", o |-> o]

is_string(v) == v.t = "String"
is_array(v) == v.t = "Array"
is_object(v) == v.t = "Object"
get_object(v) == IF v.t = "Object" THEN Some(v.o) ELSE None

(***************************************************************************)
(* The trees serde_json and toml hand to from_value.  A map node holds its *)
(* entries as a sequence of [k, v] in the map's iteration order.           *)
(***************************************************************************)
JStr(s) == [t |-> "string", s |-> s]
JArr(a) == [t |-> "array", a |-> a]
JObj(m) == [t |-> "object", m |-> m]
JNum == [t |-> "number"]
JBool == [t |-> "bool"]
JNull == [t |-> "null"]

TStr(s) == [t |-> "string", s |-> s]
TArr(a) == [t |-> "array", a |-> a]
TTable(m) == [t |-> "table", m |-> m]
TInt == [t |-> "integer"]
TBool == [t |-> "boolean"]

MapKeys(m) == {m[i].k : i \in DOMAIN m}
MapIndex(m, k) == CHOOSE i \in DOMAIN m : m[i].k = k

\* value.rs:55-80 (feature with-json)
RECURSIVE from_value_json(_)
from_value_json(value) ==
    IF value.t = "string" THEN Ok(String(value.s))
    ELSE IF value.t = "array" THEN
        LET rs == [i \in DOMAIN value.a |-> from_value_json(value.a[i])]
        IN  IF \E i \in DOMAIN rs : rs[i].kind # "Ok"
            THEN Panic("Invalid format.")
            ELSE Ok(Array([i \in DOMAIN rs |-> rs[i].val]))
    ELSE IF value.t = "object" THEN
        LET rs == [i \in DOMAIN value.m |-> from_value_json(value.m[i].v)]
            bad == {i \in DOMAIN rs : rs[i].kind # "Ok"}
        IN  IF bad # {}
            THEN rs[Min(bad)]
            ELSE Ok(Object([k \in MapKeys(value.m) |-> rs[MapIndex(value.m, k)].val]))
    ELSE Err("ParseError")

\* value.rs:83-108 (feature with-toml)
RECURSIVE from_value_toml(_)
from_value_toml(value) ==
    IF value.t = "string" THEN Ok(String(value.s))
    ELSE IF value.t = "array" THEN
        LET rs == [i \in DOMAIN value.a |-> from_value_toml(value.a[i])]
        IN  IF \E i \in DOMAIN rs : rs[i].kind # "Ok"
            THEN Panic("Invalid format.")
            ELSE Ok(Array([i \in DOMAIN rs |-> rs[i].val]))
    ELSE IF value.t = "table" THEN
        LET rs == [i \in DOMAIN value.m |-> from_value_toml(value.m[i].v)]
            bad == {i \in DOMAIN rs : rs[i].kind # "Ok"}
        IN  IF bad # {}
            THEN rs[Min(bad)]
            ELSE Ok(Object([k \in MapKeys(value.m) |-> rs[MapIndex(value.m, k)].val]))
    ELSE Err("ParseError")

(***************************************************************************)
(* Raw texts.  A text is what the format's parser makes of it: the syntax  *)
(* it is well-formed in ("garbage": in none) and the tree it denotes.      *)
(***************************************************************************)
JsonText(tree) == [syntax |-> "json", tree |-> tree]
TomlText(tree) == [syntax |-> "toml", tree |-> tree]
Garbage == [syntax |-> "garbage"]

\* serde_json::from_str (value.rs:124)
serde_json_from_str(txt) ==
    IF txt.syntax = "json" THEN Ok(txt.tree) ELSE Err("ParseError")

\* str::parse::<toml::Value> (value.rs:147)
toml_parse(txt) ==
    IF txt.syntax = "toml" THEN Ok(txt.tree) ELSE Err("ParseError")

\* value.rs:122-125, 145-148, 150-153
from_string(txt) ==
    IF feature = "with-json" THEN
        LET p == serde_json_from_str(txt)
        IN  IF p.kind = "Ok" THEN from_value_json(p.val) ELSE p
    ELSE IF feature = "with-toml" THEN
        LET p == toml_parse(txt)
        IN  IF p.kind = "Ok" THEN from_value_toml(p.val) ELSE p
    ELSE Err("NoParseFeature")

(***************************************************************************)
(* The file system.  A path is a string; an entry is absent, a directory   *)
(* or a regular file holding a text.                                       *)
(***************************************************************************)
Absent == [kind |-> "absent"]
Dir == [kind |-> "dir"]
File(txt) == [kind |-> "file", text |-> txt]
Unreadable == [syntax |-> "unreadable"]

\* env::current_dir (config.rs:68, 119)
Cwd == "/app"

\* Path::join with a relative component
join(base, name) == base \o "/" \o name

Entry(path) == IF path \in DOMAIN fs THEN fs[path] ELSE Absent
path_exists(path) == Entry(path).kind # "absent"
path_is_dir(path) == Entry(path).kind = "dir"
path_is_file(path) == Entry(path).kind = "file"

\* std::fs::read_to_string (languages.rs:86)
read_to_string(path) ==
    IF Entry(path).kind = "file" /\ Entry(path).text # Unreadable
    THEN Ok(Entry(path).text)
    ELSE Err("IoError")

(***************************************************************************)
(* Format and Config (config.rs).                                          *)
(***************************************************************************)
Formats == {"JSON", "TOML"}

\* config.rs:29-34
get_file_extension(format) == IF format = "JSON" THEN ".json" ELSE ".toml"

Config(directory, format, langs) ==
    [directory |-> directory, format |-> format, languages |-> langs]

contains(list, x) == \E i \in DOMAIN list : list[i] = x

\* config.rs:67-83; out.fs is the file system after the call (create_dir)
Config_default ==
    LET path == join(Cwd, "languages")
    IN  IF ~path_exists(path)
        THEN [ret |-> Ok(Config(path, "JSON", <<>>)),
              fs |-> [p \in DOMAIN fs \cup {path} |-> IF p = path THEN Dir ELSE fs[p]]]
        ELSE IF ~path_is_dir(path)
        THEN [ret |-> Err("NotADirectory"), fs |-> fs]
        ELSE [ret |-> Ok(Config(path, "JSON", <<>>)), fs |-> fs]

\* Config::new (called at examples/toml_files.rs:5); its format is not stated
Config_new(directory, langs, format) ==
    LET path == join(Cwd, directory)
    IN  IF ~path_exists(path) THEN Err("DirectoryNotFound")
        ELSE IF ~path_is_dir(path) THEN Err("NotADirectory")
        ELSE Ok(Config(path, format, langs))

\* config.rs:103-105, 145-147, 174-176
get_directory(self) == self.directory
get_format(self) == self.format
get_languages(self) == self.languages

\* set_directory without the is_dir check
set_directory_unchecked(self, new_directory) ==
    LET path == join(Cwd, new_directory)
    IN  IF ~path_exists(path)
        THEN [ret |-> Err("DirectoryNotFound"), self |-> self]
        ELSE [ret |-> Ok("unit"), self |-> [self EXCEPT !.directory = path]]

\* config.rs:118-134
set_directory(self, new_directory) ==
    LET path == join(Cwd, new_directory)
    IN  IF ~path_exists(path)
        THEN [ret |-> Err("DirectoryNotFound"), self |-> self]
        ELSE IF ~path_is_dir(path)
        THEN [ret |-> Err("NotADirectory"), self |-> self]
        ELSE [ret |-> Ok("unit"), self |-> [self EXCEPT !.directory = path]]

\* config.rs:161-163
change_format(self, new_format) == [self EXCEPT !.format = new_format]

\* add_language without the contains check
add_language_unchecked(self, language) ==
    [ret |-> Ok("unit"), self |-> [self EXCEPT !.languages = Append(@, language)]]

\* config.rs:189-199
add_language(self, language) ==
    IF contains(self.languages, language)
    THEN [ret |-> Err("DuplicateLanguage"), self |-> self]
    ELSE [ret |-> Ok("unit"),
          self |-> [self EXCEPT !.languages = Append(@, language)]]

(***************************************************************************)
(* LanguageTexts (languages/language_texts.rs).                            *)
(***************************************************************************)
\* LanguageTexts::new without the is_object check
LanguageTexts_new_unchecked(language, texts) ==
    Ok([language |-> language, texts |-> texts])

\* language_texts.rs:25-31
LanguageTexts_new(language, texts) ==
    IF ~is_object(texts)
    THEN Err("NotAnObject")
    ELSE Ok([language |-> language, texts |-> texts])

\* language_texts.rs:45-47
get_language(self) == self.language

\* the segments of a key read as a dotted path
Segments(key) == IF key = "menu.title" THEN <<"menu", "title">> ELSE <<key>>

\* a lookup that walks a dotted key into the nested objects
try_get_text_dotted(self, key) ==
    LET seg == Segments(key)
    IN  IF ~is_object(self.texts) \/ seg[1] \notin DOMAIN self.texts.o THEN None
        ELSE IF Len(seg) = 1 THEN Some(self.texts.o[seg[1]])
        ELSE IF is_object(self.texts.o[seg[1]])
                /\ seg[2] \in DOMAIN self.texts.o[seg[1]].o
        THEN Some(self.texts.o[seg[1]].o[seg[2]])
        ELSE None

\* language_texts.rs:68-76
try_get_text(self, key) ==
    IF is_object(self.texts) /\ key \in DOMAIN get_object(self.texts).val
    THEN Some(get_object(self.texts).val[key])
    ELSE None

(***************************************************************************)
(* Languages (languages.rs).  A call's outcome: its result, the instance   *)
(* after it and the file-system accesses it made, in order.                *)
(***************************************************************************)
\* languages.rs:24-29
Languages_new(config) == [config |-> config, langs |-> <<>>]

Access(op, path, lang) == [op |-> op, path |-> path, lang |-> lang]

\* languages.rs:67
feature_extension ==
    IF feature = "with-json" THEN ".json"
    ELSE IF feature = "with-toml" THEN ".toml"
    ELSE ""

\* an instance that keeps a reference to the caller's Config, not a clone
self_config_shared(self) ==
    IF configuration = [tag |-> "NoConfig"] THEN self.config ELSE configuration

\* languages.rs:26, 49, 64: self.config, the clone made by Languages::new
self_config(self) == self.config

\* languages.rs:63-68
language_path(self, lang) ==
    join(get_directory(self_config(self)), lang \o feature_extension)

\* try_get_language without the whitelist check
is_configured_always(self, lang) == TRUE

\* languages.rs:49
is_configured(self, lang) == contains(get_languages(self_config(self)), lang)

\* a cache that never hits
cache_lookup_never(self, lang) == None

\* a cache lookup that looks at the first entry only
cache_lookup_first(self, lang) ==
    IF self.langs # <<>> /\ get_language(self.langs[1]) = lang
    THEN Some(self.langs[1])
    ELSE None

\* languages.rs:56-61
cache_lookup(self, lang) ==
    LET hits == {i \in DOMAIN self.langs : get_language(self.langs[i]) = lang}
    IN  IF hits = {} THEN None ELSE Some(self.langs[Min(hits)])

\* languages.rs:83-87
read_language(path, lang) ==
    IF read_to_string(path).kind # "Ok" THEN read_to_string(path)
    ELSE IF from_string(read_to_string(path).val).kind # "Ok"
    THEN from_string(read_to_string(path).val)
    ELSE LanguageTexts_new(lang, from_string(read_to_string(path).val).val)

\* a cache that is never filled
cache_push_skip(self, lang_texts) == self

\* a cache that keeps the last entry only
cache_push_replace(self, lang_texts) == [self EXCEPT !.langs = <<lang_texts>>]

\* a push that looks the code up again and keeps the entry that is there
cache_push_unique(self, lang_texts) ==
    IF \E i \in DOMAIN self.langs : self.langs[i].language = lang_texts.language
    THEN self
    ELSE [self EXCEPT !.langs = Append(@, lang_texts)]

\* languages.rs:89-90
cache_push(self, lang_texts) == [self EXCEPT !.langs = Append(@, lang_texts)]

\* a call that remembers a file it did not find as a language without texts
try_get_language_negative(self, lang) ==
    IF ~is_configured(self, lang)
    THEN [ret |-> Err("NotConfigured"), self |-> self, io |-> <<>>]
    ELSE IF cache_lookup(self, lang).some
    THEN [ret |-> Ok(cache_lookup(self, lang).val), self |-> self, io |-> <<>>]
    ELSE
        LET path == language_path(self, lang)
            e == Access("exists", path, lang)
            f == Access("is_file", path, lang)
            r == Access("read", path, lang)
        IN  IF ~path_exists(path)
            THEN [ret |-> Err("FileNotFound"),
                  self |-> cache_push(self, [language |-> lang, texts |-> Object(<<>>)]),
                  io |-> <<e>>]
            ELSE IF ~path_is_file(path)
            THEN [ret |-> Err("NotAFile"), self |-> self, io |-> <<e, f>>]
            ELSE
                LET lang_texts == read_language(path, lang)
                IN  IF lang_texts.kind # "Ok"
                    THEN [ret |-> lang_texts, self |-> self, io |-> <<e, f, r>>]
                    ELSE [ret |-> Ok(lang_texts.val),
                          self |-> cache_push(self, lang_texts.val),
                          io |-> <<e, f, r>>]

\* languages.rs:47-93
try_get_language(self, lang) ==
    IF ~is_configured(self, lang)
    THEN [ret |-> Err("NotConfigured"), self |-> self, io |-> <<>>]
    ELSE IF cache_lookup(self, lang).some
    THEN [ret |-> Ok(cache_lookup(self, lang).val), self |-> self, io |-> <<>>]
    ELSE
        LET path == language_path(self, lang)
            e == Access("exists", path, lang)
            f == Access("is_file", path, lang)
            r == Access("read", path, lang)
        IN  IF ~path_exists(path)
            THEN [ret |-> Err("FileNotFound"), self |-> self, io |-> <<e>>]
            ELSE IF ~path_is_file(path)
            THEN [ret |-> Err("NotAFile"), self |-> self, io |-> <<e, f>>]
            ELSE
                LET lang_texts == read_language(path, lang)
                IN  IF lang_texts.kind # "Ok"
                    THEN [ret |-> lang_texts, self |-> self, io |-> <<e, f, r>>]
                    ELSE [ret |-> Ok(lang_texts.val),
                          self |-> cache_push(self, lang_texts.val),
                          io |-> <<e, f, r>>]

\* languages.rs:110-116
try_get_text_from_language(self, lang, key) ==
    LET out == try_get_language(self, lang)
    IN  IF out.ret.kind = "Ok"
        THEN [out EXCEPT !.ret = Ok(try_get_text(out.ret.val, key))]
        ELSE out

(***************************************************************************)
(* load (lib.rs).  calls: the codes handed to try_get_language, in order;   *)
(* results: what each of these calls returned.                             *)
(***************************************************************************)
\* lib.rs:102-104: the loop from the i-th configured code on
RECURSIVE load_from(_, _, _)
load_from(st, langs, i) ==
    IF i > Len(langs)
    THEN [ret |-> Ok(st.self), io |-> st.io, calls |-> st.calls, results |-> st.results]
    ELSE
        LET out == try_get_language(st.self, langs[i])
            calls == Append(st.calls, langs[i])
            results == Append(st.results, out.ret)
        IN  IF out.ret.kind # "Ok"
            THEN [ret |-> out.ret, io |-> st.io \o out.io, calls |-> calls,
                  results |-> results]
            ELSE load_from([self |-> out.self, io |-> st.io \o out.io, calls |-> calls,
                            results |-> results],
                           langs, i + 1)

\* lib.rs:99-107
load(config) ==
    load_from([self |-> Languages_new(config), io |-> <<>>, calls |-> <<>>,
               results |-> <<>>],
              get_languages(config), 1)

(***************************************************************************)
(* The texts and the file system the model runs on.                        *)
(***************************************************************************)
KV(k, v) == [k |-> k, v |-> v]

\* {"greeting":"Hi","nums":["1","2"]}
T_en == JsonText(JObj(<<KV("greeting", JStr("Hi")),
                        KV("nums", JArr(<<JStr("1"), JStr("2")>>))>>))
\* {"greeting":"Hola"}
T_es == JsonText(JObj(<<KV("greeting", JStr("Hola"))>>))
\* {"count": 5}
T_count == JsonText(JObj(<<KV("count", JNum)>>))
\* {"greeting":"Hi","nums":["1", 2]}
T_mixed == JsonText(JObj(<<KV("greeting", JStr("Hi")),
                           KV("nums", JArr(<<JStr("1"), JNum>>))>>))
\* ["Hi"]
T_array == JsonText(JArr(<<JStr("Hi")>>))
\* greeting = "Hi"  nums = ["1", "2"]
Toml_en == TomlText(TTable(<<KV("greeting", TStr("Hi")),
                             KV("nums", TArr(<<TStr("1"), TStr("2")>>))>>))
\* greeting = "Hola"
Toml_es == TomlText(TTable(<<KV("greeting", TStr("Hola"))>>))
\* nums = ["1", 2]
Toml_mixed == TomlText(TTable(<<KV("nums", TArr(<<TStr("1"), TInt>>))>>))

\* {"greeting":"Hi","menu":{"title":"Start"}}
T_menu == JsonText(JObj(<<KV("greeting", JStr("Hi")),
                          KV("menu", JObj(<<KV("title", JStr("Start"))>>))>>))
\* {"menu.title":"Literal","menu":{"title":"Start"}}
T_dotkey == JsonText(JObj(<<KV("menu.title", JStr("Literal")),
                            KV("menu", JObj(<<KV("title", JStr("Start"))>>))>>))
\* "Hi"
T_string == JsonText(JStr("Hi"))
\* greeting = "Hi"  [menu] title = "Start"
Toml_menu == TomlText(TTable(<<KV("greeting", TStr("Hi")),
                               KV("menu", TTable(<<KV("title", TStr("Start"))>>))>>))

FileTexts == {T_en, T_es, T_count, T_mixed, T_array, Toml_es, Toml_mixed, Unreadable}

DirNames == {"languages", "alt", "plain", "gone"}
Exts == {".json", ".toml", ""}
FilesIn(dir) == {join(dir, c \o e) : c \in Codes, e \in Exts}

InitFs ==
    [p \in {join(Cwd, d) : d \in DirNames} \cup FilesIn(join(Cwd, "languages"))
           \cup FilesIn(join(Cwd, "alt")) |->
        IF p \in {join(Cwd, "languages"), join(Cwd, "alt")} THEN Dir
        ELSE IF p = join(Cwd, "plain") THEN File(Garbage)
        ELSE IF p = join(join(Cwd, "languages"), "en.json") THEN File(T_en)
        ELSE IF p = join(join(Cwd, "languages"), "es.json") THEN File(T_es)
        ELSE IF p = join(join(Cwd, "languages"), "es.toml") THEN File(Toml_es)
        ELSE IF p = join(join(Cwd, "languages"), "en.toml") THEN File(Toml_en)
        ELSE IF p = join(join(Cwd, "alt"), "en.json") THEN File(T_es)
        ELSE IF p = join(join(Cwd, "alt"), "en.toml") THEN File(Toml_es)
        ELSE Absent]

NoConfig == [tag |-> "NoConfig"]
NoInstance == [tag |-> "NoInstance"]
NoText == [syntax |-> "none"]
Unit == Ok("unit")

\* the threads that call try_get_language on the one instance, and a thread
\* that is in no call
Callers == {"a", "b"}
IdleCaller == [pc |-> "idle", lang |-> "", missed |-> FALSE, ret |-> Unit]

ReadsOf(io, lang) == {i \in DOMAIN io : io[i].op = "read" /\ io[i].lang = lang}

LangLists == SeqsUpTo(Codes, MaxLangs)

Init ==
    /\ feature \in Features
    /\ fs = InitFs
    /\ text = NoText
    /\ configuration = NoConfig
    /\ languages = NoInstance
    /\ readCodes = {}
    /\ loadedCodes = {}
    /\ firstOk = [c \in Codes |-> None]
    /\ callers = [c \in Callers |-> IdleCaller]
    /\ last = [op |-> "start", ret |-> Unit, io |-> <<>>]

\* a panic unwinds main: the process is gone
Running == last.ret.kind # "Panic"

(***************************************************************************)
(* The environment: other processes change the file system.                *)
(***************************************************************************)
FsWrite(path, entry) ==
    /\ fs[path] # entry
    /\ fs' = [fs EXCEPT ![path] = entry]
    /\ last' = [op |-> "fs", ret |-> last.ret, io |-> <<>>]
    /\ UNCHANGED <<feature, text, configuration, languages, readCodes, loadedCodes, firstOk, callers>>

\* rm -r: the directory goes with the files in it
FsRemoveDir(dir) ==
    /\ fs[dir].kind = "dir"
    /\ fs' = [p \in DOMAIN fs |-> IF p = dir \/ p \in FilesIn(dir) THEN Absent ELSE fs[p]]
    /\ last' = [op |-> "fs", ret |-> last.ret, io |-> <<>>]
    /\ UNCHANGED <<feature, text, configuration, languages, readCodes, loadedCodes, firstOk, callers>>

(***************************************************************************)
(* Value::from_string on a text of the caller's.                           *)
(***************************************************************************)
FromString ==
    /\ Running
    /\ text # NoText
    /\ last' = [op |-> "from_string", ret |-> from_string(text), io |-> <<>>,
                text |-> text]
    /\ UNCHANGED <<feature, fs, text, configuration, languages, readCodes, loadedCodes, firstOk, callers>>

(***************************************************************************)
(* The caller's operations on its Config.                                  *)
(***************************************************************************)
ConfigDefault ==
    /\ Running
    /\ LET out == Config_default
       IN  /\ configuration' = (IF out.ret.kind = "Ok" THEN out.ret.val ELSE configuration)
           /\ fs' = out.fs
           /\ last' = [op |-> "Config::default", ret |-> out.ret, io |-> <<>>]
    /\ UNCHANGED <<feature, text, languages, readCodes, loadedCodes, firstOk, callers>>

ConfigNew(directory, langs, format) ==
    /\ Running
    /\ LET ret == Config_new(directory, langs, format)
       IN  /\ configuration' = (IF ret.kind = "Ok" THEN ret.val ELSE configuration)
           /\ last' = [op |-> "Config::new", ret |-> ret, io |-> <<>>]
    /\ UNCHANGED <<feature, fs, text, languages, readCodes, loadedCodes, firstOk, callers>>

SetDirectory(new_directory) ==
    /\ Running
    /\ configuration # NoConfig
    /\ LET out == set_directory(configuration, new_directory)
       IN  /\ configuration' = out.self
           /\ last' = [op |-> "set_directory", ret |-> out.ret, io |-> <<>>,
                       pre |-> configuration, arg |-> new_directory]
    /\ UNCHANGED <<feature, fs, text, languages, readCodes, loadedCodes, firstOk, callers>>

ChangeFormat(new_format) ==
    /\ Running
    /\ configuration # NoConfig
    /\ configuration' = change_format(configuration, new_format)
    /\ last' = [op |-> "change_format", ret |-> Unit, io |-> <<>>,
                pre |-> configuration, arg |-> new_format]
    /\ UNCHANGED <<feature, fs, text, languages, readCodes, loadedCodes, firstOk, callers>>

AddLanguage(language) ==
    /\ Running
    /\ configuration # NoConfig
    /\ LET out == add_language(configuration, language)
       IN  /\ Len(out.self.languages) <= MaxLangs
           /\ configuration' = out.self
           /\ last' = [op |-> "add_language", ret |-> out.ret, io |-> <<>>,
                       pre |-> configuration, arg |-> language]
    /\ UNCHANGED <<feature, fs, text, languages, readCodes, loadedCodes, firstOk, callers>>

(***************************************************************************)
(* The caller's operations on its Languages instance.  last.pre is the     *)
(* instance before the call, last.prior the first Ok result for the code   *)
(* before the call, last.readBefore whether its file had been read.        *)
(***************************************************************************)
LanguagesNew ==
    /\ Running
    /\ configuration # NoConfig
    /\ languages' = Languages_new(configuration)
    /\ readCodes' = {}
    /\ loadedCodes' = {}
    /\ firstOk' = [c \in Codes |-> None]
    /\ last' = [op |-> "Languages::new", ret |-> Unit, io |-> <<>>]
    /\ UNCHANGED <<feature, fs, text, configuration, callers>>

TryGetLanguage(lang) ==
    /\ Running
    /\ languages # NoInstance
    /\ LET out == try_get_language(languages, lang)
       IN  /\ languages' = out.self
           /\ readCodes' = (IF ReadsOf(out.io, lang) # {}
                            THEN readCodes \cup {lang} ELSE readCodes)
           /\ loadedCodes' = (IF ReadsOf(out.io, lang) # {} /\ out.ret.kind = "Ok"
                              THEN loadedCodes \cup {lang} ELSE loadedCodes)
           /\ firstOk' = IF out.ret.kind = "Ok" /\ ~firstOk[lang].some
                         THEN [firstOk EXCEPT ![lang] = Some(out.ret.val)]
                         ELSE firstOk
           /\ last' = [op |-> "try_get_language", ret |-> out.ret, io |-> out.io,
                       pre |-> languages, lang |-> lang, prior |-> firstOk[lang],
                       readBefore |-> lang \in readCodes,
                       loadedBefore |-> lang \in loadedCodes]
    /\ UNCHANGED <<feature, fs, text, configuration, callers>>

TryGetTextFromLanguage(lang, key) ==
    /\ Running
    /\ languages # NoInstance
    /\ LET out == try_get_text_from_language(languages, lang, key)
       IN  /\ languages' = out.self
           /\ readCodes' = (IF ReadsOf(out.io, lang) # {}
                            THEN readCodes \cup {lang} ELSE readCodes)
           /\ loadedCodes' = (IF ReadsOf(out.io, lang) # {} /\ out.ret.kind = "Ok"
                              THEN loadedCodes \cup {lang} ELSE loadedCodes)
           /\ last' = [op |-> "try_get_text_from_language", ret |-> out.ret,
                       io |-> out.io, pre |-> languages, lang |-> lang, key |-> key,
                       readBefore |-> lang \in readCodes,
                       loadedBefore |-> lang \in loadedCodes]
    /\ UNCHANGED <<feature, fs, text, configuration, firstOk, callers>>

\* load takes the Config by value; the caller keeps the instance only on Ok
Load ==
    /\ Running
    /\ configuration # NoConfig
    /\ LET out == load(configuration)
       IN  /\ languages' = (IF out.ret.kind = "Ok" THEN out.ret.val ELSE languages)
           /\ readCodes' = (IF out.ret.kind = "Ok"
                            THEN {c \in Codes : ReadsOf(out.io, c) # {}}
                            ELSE readCodes)
           /\ loadedCodes' = (IF out.ret.kind = "Ok"
                              THEN {c \in Codes : ReadsOf(out.io, c) # {}}
                              ELSE loadedCodes)
           /\ firstOk' = (IF out.ret.kind = "Ok" THEN [c \in Codes |-> None] ELSE firstOk)
           /\ last' = [op |-> "load", ret |-> out.ret, io |-> out.io,
                       config |-> configuration, calls |-> out.calls,
                       results |-> out.results]
    /\ configuration' = NoConfig
    /\ UNCHANGED <<feature, fs, text, callers>>

(***************************************************************************)
(* The caller builds a LanguageTexts of its own from a Value.              *)
(***************************************************************************)
LanguageTextsNew(language, texts) ==
    /\ Running
    /\ last' = [op |-> "LanguageTexts::new", ret |-> LanguageTexts_new(language, texts),
                io |-> <<>>, lang |-> language, arg |-> texts]
    /\ UNCHANGED <<feature, fs, text, configuration, languages, readCodes, loadedCodes, firstOk, callers>>

LanguagesDir == join(Cwd, "languages")
FileEntries == {Absent, Dir} \cup {File(t) : t \in FileTexts}

\* other processes rewrite, replace or remove the file the build looks up
\* for the code "es"
FileStep ==
    \E e \in FileEntries : FsWrite(join(LanguagesDir, "es" \o feature_extension), e)

\* other processes create, replace or remove directories
DirStep ==
    \/ \E d \in {"plain", "gone"}, e \in {Absent, Dir, File(Garbage)} :
            FsWrite(join(Cwd, d), e)
    \/ \E d \in {"languages", "alt"} : FsRemoveDir(join(Cwd, d))
    \/ \E d \in {"languages", "alt"}, e \in {Dir, File(Garbage)} :
            /\ fs[join(Cwd, d)].kind # "dir"
            /\ FsWrite(join(Cwd, d), e)

ConfigStep(dirs) ==
    \/ ConfigDefault
    \/ \E d \in dirs : SetDirectory(d)
    \/ \E f \in Formats : ChangeFormat(f)
    \/ \E l \in Codes : AddLanguage(l)

ConfigNewStep(dirs) ==
    \E d \in dirs, ls \in LangLists, f \in Formats : ConfigNew(d, ls, f)

LanguagesStep(keys) ==
    \/ LanguagesNew
    \/ Load
    \/ \E l \in Codes : TryGetLanguage(l)
    \/ \E l \in Codes, k \in keys : TryGetTextFromLanguage(l, k)

(***************************************************************************)
(* The texts Value::from_string is tried on: every tree of strings,        *)
(* numbers, booleans and nulls in arrays and maps, three levels deep.      *)
(***************************************************************************)
JLeaves == {JStr("Hi"), JNum, JBool, JNull}
TLeaves == {TStr("Hi"), TInt, TBool}

JLevel1 ==
    JLeaves \cup {JArr(a) : a \in SeqsUpTo(JLeaves, MaxArrayLen)}
            \cup {JObj(<<>>)}
            \cup {JObj(<<KV("a", x)>>) : x \in JLeaves}
            \cup {JObj(<<KV("a", x), KV("b", y)>>) : x \in JLeaves, y \in JLeaves}

JLevel2 ==
    JLevel1 \cup {JArr(<<x>>) : x \in JLevel1}
            \cup {JArr(<<JStr("Hi"), x>>) : x \in JLevel1}
            \cup {JObj(<<KV("a", x)>>) : x \in JLevel1}
            \cup {JObj(<<KV("a", x), KV("b", JNum)>>) : x \in JLevel1}

JLevel3 == JLevel2 \cup {JObj(<<KV("k", x)>>) : x \in JLevel2}

TLevel1 ==
    TLeaves \cup {TArr(a) : a \in SeqsUpTo(TLeaves, MaxArrayLen)}
            \cup {TTable(<<>>)}
            \cup {TTable(<<KV("a", x)>>) : x \in TLeaves}
            \cup {TTable(<<KV("a", x), KV("b", y)>>) : x \in TLeaves, y \in TLeaves}

TLevel2 ==
    TLevel1 \cup {TArr(<<x>>) : x \in TLevel1}
            \cup {TTable(<<KV("a", x)>>) : x \in TLevel1}
            \cup {TTable(<<KV("a", x), KV("b", TInt)>>) : x \in TLevel1}

\* a TOML document is a table
ValueTexts ==
    {Garbage} \cup {JsonText(t) : t \in JLevel3}
              \cup {TomlText(TTable(<<KV("k", x)>>)) : x \in TLevel2}

(***************************************************************************)
(* try_get_language run by two threads on one instance with nothing that   *)
(* keeps one out while the other is in: a step is one statement of          *)
(* languages.rs:47-93, and a thread's locals are callers[c].                *)
(***************************************************************************)
EntriesOf(self, lang) == {i \in DOMAIN self.langs : get_language(self.langs[i]) = lang}

Returns(c, ret) == [callers EXCEPT ![c].pc = "done", ![c].ret = ret]

\* languages.rs:47
RaceCall(c, lang) ==
    /\ languages # NoInstance
    /\ callers[c].pc = "idle"
    /\ callers' = [callers EXCEPT ![c].pc = "configured", ![c].lang = lang]
    /\ UNCHANGED <<feature, fs, text, configuration, languages, readCodes, loadedCodes,
                   firstOk, last>>

\* languages.rs:49-54
RaceConfigured(c) ==
    /\ callers[c].pc = "configured"
    /\ callers' = IF is_configured(languages, callers[c].lang)
                  THEN [callers EXCEPT ![c].pc = "lookup"]
                  ELSE Returns(c, Err("NotConfigured"))
    /\ UNCHANGED <<feature, fs, text, configuration, languages, readCodes, loadedCodes,
                   firstOk, last>>

\* languages.rs:56-61
RaceLookup(c) ==
    /\ callers[c].pc = "lookup"
    /\ callers' = IF cache_lookup(languages, callers[c].lang).some
                  THEN Returns(c, Ok(cache_lookup(languages, callers[c].lang).val))
                  ELSE [callers EXCEPT ![c].pc = "path", ![c].missed = TRUE]
    /\ UNCHANGED <<feature, fs, text, configuration, languages, readCodes, loadedCodes,
                   firstOk, last>>

\* languages.rs:63-81
RacePath(c) ==
    /\ callers[c].pc = "path"
    /\ LET path == language_path(languages, callers[c].lang)
       IN  callers' = IF ~path_exists(path) THEN Returns(c, Err("FileNotFound"))
                      ELSE IF ~path_is_file(path) THEN Returns(c, Err("NotAFile"))
                      ELSE [callers EXCEPT ![c].pc = "read"]
    /\ UNCHANGED <<feature, fs, text, configuration, languages, readCodes, loadedCodes,
                   firstOk, last>>

\* languages.rs:83-87; callers[c].ret holds the local lang_texts
RaceRead(c) ==
    /\ callers[c].pc = "read"
    /\ LET lang_texts == read_language(language_path(languages, callers[c].lang),
                                       callers[c].lang)
       IN  callers' = IF lang_texts.kind # "Ok" THEN Returns(c, lang_texts)
                      ELSE [callers EXCEPT ![c].pc = "push", ![c].ret = lang_texts]
    /\ UNCHANGED <<feature, fs, text, configuration, languages, readCodes, loadedCodes,
                   firstOk, last>>

\* languages.rs:89-92
RacePush(c) ==
    /\ callers[c].pc = "push"
    /\ languages' = cache_push(languages, callers[c].ret.val)
    /\ callers' = Returns(c, callers[c].ret)
    /\ UNCHANGED <<feature, fs, text, configuration, readCodes, loadedCodes, firstOk, last>>

RaceStep(c) ==
    \/ \E l \in Codes : RaceCall(c, l)
    \/ RaceConfigured(c)
    \/ RaceLookup(c)
    \/ RacePath(c)
    \/ RaceRead(c)
    \/ RacePush(c)

\* the Config and the instance are built before the threads start
NextRace ==
    \/ (languages = NoInstance /\ ConfigDefault)
    \/ (languages = NoInstance /\ \E l \in Codes : AddLanguage(l))
    \/ (languages = NoInstance /\ LanguagesNew)
    \/ \E c \in Callers : RaceStep(c)
    \/ FileStep

SpecRace == Init /\ [][NextRace]_vars

(***************************************************************************)
(* The caller goes on changing its Config after Languages::new.            *)
(***************************************************************************)
NextSnapshot ==
    \/ ConfigStep({"languages", "alt"})
    \/ LanguagesNew
    \/ \E l \in Codes : TryGetLanguage(l)
    \/ \E l \in Codes : TryGetTextFromLanguage(l, "greeting")

SpecSnapshot == Init /\ [][NextSnapshot]_vars

(***************************************************************************)
(* Texts and their keys: the file of "en" holds nested objects, a key with *)
(* a dot in it, or a root that is no Object.                               *)
(***************************************************************************)
TextKeys == Keys \cup {"menu", "menu.title"}
TextEntries ==
    {Absent} \cup {File(t) : t \in {T_en, T_menu, T_dotkey, T_array, T_string,
                                      T_mixed, Toml_menu}}
NewValues ==
    {String("Hi"), Array(<<>>), Array(<<String("Hi")>>),
     Object([k \in {"greeting"} |-> String("Hi")]), Object(<<>>)}

TextsFileStep ==
    \E e \in TextEntries : FsWrite(join(LanguagesDir, "en" \o feature_extension), e)

NextTexts ==
    \/ (languages = NoInstance /\ ConfigDefault)
    \/ (languages = NoInstance /\ \E l \in Codes : AddLanguage(l))
    \/ LanguagesNew
    \/ \E l \in Codes : TryGetLanguage(l)
    \/ \E l \in Codes, k \in TextKeys : TryGetTextFromLanguage(l, k)
    \/ \E l \in Codes, v \in NewValues : LanguageTextsNew(l, v)
    \/ TextsFileStep

SpecTexts == Init /\ [][NextTexts]_vars

\* the caller builds its Config (over the directory languages/, or failing
\* on a missing path or a regular file), then works on the Languages made
\* from it
Next ==
    \/ (languages = NoInstance /\ ConfigStep({"languages", "gone"}))
    \/ (languages = NoInstance /\ ConfigNewStep({"languages", "plain"}))
    \/ LanguagesStep({"greeting"})
    \/ FileStep

Spec == Init /\ [][Next]_vars

\* the caller's Config alone, over directories that come and go
InitConfig == Init /\ feature = "with-json"

NextConfig ==
    \/ ConfigStep(DirNames)
    \/ DirStep

SpecConfig == InitConfig /\ [][NextConfig]_vars

\* Value::from_string alone, on every text of ValueTexts
InitValue ==
    /\ feature \in Features
    /\ fs = InitFs
    /\ text \in ValueTexts
    /\ configuration = NoConfig
    /\ languages = NoInstance
    /\ readCodes = {}
    /\ loadedCodes = {}
    /\ firstOk = [c \in Codes |-> None]
    /\ callers = [c \in Callers |-> IdleCaller]
    /\ last = [op |-> "start", ret |-> Unit, io |-> <<>>]

NextValue == FromString

SpecValue == InitValue /\ [][NextValue]_vars

(***************************************************************************)
(* The claims.                                                             *)
(***************************************************************************)
IsCall == last.op \in {"try_get_language", "try_get_text_from_language"}
CacheCodes(self) == [i \in DOMAIN self.langs |-> get_language(self.langs[i])]
IsPrefix(s, t) == Len(s) <= Len(t) /\ s = SubSeq(t, 1, Len(s))

RECURSIVE Dedup(_)
Dedup(s) ==
    IF s = <<>> THEN <<>>
    ELSE LET d == Dedup(SubSeq(s, 1, Len(s) - 1))
         IN  IF contains(d, s[Len(s)]) THEN d ELSE Append(d, s[Len(s)])

\* C1: try_get_language on a code that is not in the instance's configured
\* list returns the NotConfigured error, touches no file and leaves the
\* instance as it was, whatever the file system holds for that code.
C1_NotConfigured ==
    (last.op = "try_get_language" /\ ~contains(last.pre.config.languages, last.lang))
        => /\ last.ret = Err("NotConfigured")
           /\ last.io = <<>>
           /\ languages = last.pre

\* the unconfigured code's file is there, a regular file that would parse
C1_Witness ==
    /\ last.op = "try_get_language"
    /\ ~contains(last.pre.config.languages, last.lang)
    /\ path_is_file(language_path(last.pre, last.lang))
    /\ read_language(language_path(last.pre, last.lang), last.lang).kind = "Ok"
    /\ last.ret.kind = "Err"

\* C2: once try_get_language(c) has returned Ok on an instance, every later
\* try_get_language(c) on it returns Ok with an equal LanguageTexts and makes
\* no file-system access.
C2_CacheHit ==
    (last.op = "try_get_language" /\ last.prior.some)
        => /\ last.ret = Ok(last.prior.val)
           /\ last.io = <<>>

\* a second call succeeds although the file has been removed since
C2_Witness ==
    /\ last.op = "try_get_language"
    /\ last.prior.some
    /\ last.ret.kind = "Ok"
    /\ ~path_exists(language_path(last.pre, last.lang))

\* C3 as claimed: no call reads the file of a code whose file the instance
\* has read before.
C3_ReadAtMostOnce ==
    /\ (IsCall /\ ReadsOf(last.io, last.lang) # {}) => ~last.readBefore
    /\ last.op = "load" => \A c \in Codes : Cardinality(ReadsOf(last.io, c)) <= 1

\* C3 as amended: a call reads the file of its code at most once, and no call
\* reads the file of a code once a read of it has ended in an Ok result; a
\* read that ended in an error is repeated by the next call for the code.
C3_ReadOnceSuccessfully ==
    /\ IsCall => /\ Cardinality(ReadsOf(last.io, last.lang)) <= 1
                 /\ ReadsOf(last.io, last.lang) # {} => ~last.loadedBefore
    /\ last.op = "load" => \A c \in Codes : Cardinality(ReadsOf(last.io, c)) <= 1

\* the file is read a second time, after a first read that failed, and now loads
C3_Witness ==
    /\ last.op = "try_get_language"
    /\ ReadsOf(last.io, last.lang) # {}
    /\ last.readBefore
    /\ last.ret.kind = "Ok"

\* C4: the cache of an instance never holds two entries for one language code.
C4_OneEntryPerCode ==
    languages # NoInstance =>
        \A i, j \in DOMAIN languages.langs :
            get_language(languages.langs[i]) = get_language(languages.langs[j]) => i = j

\* the configured list names a code twice, and the code is cached
C4_Witness ==
    /\ languages # NoInstance
    /\ \E i, j \in DOMAIN languages.config.languages :
          /\ i # j
          /\ languages.config.languages[i] = languages.config.languages[j]
          /\ cache_lookup(languages, languages.config.languages[i]).some
    /\ IsCall
    /\ last.ret.kind = "Ok"

\* C5: a try_get_language or try_get_text_from_language call leaves the cache
\* as it was or appends one entry to it; the entries it found stay, in order.
C5_CacheOnlyGrows ==
    IsCall =>
        \/ languages.langs = last.pre.langs
        \/ /\ Len(languages.langs) = Len(last.pre.langs) + 1
           /\ SubSeq(languages.langs, 1, Len(last.pre.langs)) = last.pre.langs

\* a call appended an entry to a cache that held one already
C5_Witness ==
    /\ IsCall
    /\ Len(last.pre.langs) >= 1
    /\ Len(languages.langs) = Len(last.pre.langs) + 1

\* C6: add_language(code) returns the DuplicateLanguage error and leaves the
\* Config as it was when the list holds code; otherwise it appends code to
\* the list and leaves the directory and the format alone.
C6_AddLanguage ==
    last.op = "add_language" =>
        IF contains(last.pre.languages, last.arg)
        THEN /\ last.ret = Err("DuplicateLanguage")
             /\ configuration = last.pre
        ELSE /\ last.ret.kind = "Ok"
             /\ configuration.languages = Append(last.pre.languages, last.arg)
             /\ configuration.directory = last.pre.directory
             /\ configuration.format = last.pre.format

\* a code is rejected as a duplicate by a Config that lists two codes
C6_Witness ==
    /\ last.op = "add_language"
    /\ last.ret = Err("DuplicateLanguage")
    /\ Len(configuration.languages) = 2
    /\ configuration.languages[2] = last.arg

\* does the tree hold a node that is no string, array or map?
RECURSIVE HasForbidden(_)
HasForbidden(node) ==
    IF node.t = "string" THEN FALSE
    ELSE IF node.t = "array" THEN \E i \in DOMAIN node.a : HasForbidden(node.a[i])
    ELSE IF node.t \in {"object", "table"}
    THEN \E i \in DOMAIN node.m : HasForbidden(node.m[i].v)
    ELSE TRUE

WellFormed(txt) ==
    \/ feature = "with-json" /\ txt.syntax = "json"
    \/ feature = "with-toml" /\ txt.syntax = "toml"

\* C7: from_string on a well-formed text that holds a number, boolean or
\* null anywhere in its tree returns an error: it neither panics nor returns
\* a Value.
C7_ForbiddenNodeIsAnError ==
    (last.op = "from_string" /\ WellFormed(last.text) /\ HasForbidden(last.text.tree))
        => last.ret.kind = "Err"

\* C8: the first path a cache miss looks up is directory/<code><extension>,
\* with the extension of the format held by the instance's Config.
C8_LookupUsesConfigFormat ==
    (IsCall /\ last.io # <<>>)
        => last.io[1].path =
               join(last.pre.config.directory,
                    last.lang \o get_file_extension(last.pre.config.format))

\* C9: load calls try_get_language on the configured codes in list order,
\* stops at the first call that fails and returns its error; it returns the
\* instance only when every call returned Ok, and then the cache holds every
\* configured code, in the order of first occurrence.
C9_LoadFailFast ==
    last.op = "load" =>
        /\ IsPrefix(last.calls, last.config.languages)
        /\ \A i \in 1..(Len(last.results) - 1) : last.results[i].kind = "Ok"
        /\ last.ret.kind \in {"Ok", "Err"}
        /\ last.ret.kind = "Err" => last.ret = last.results[Len(last.results)]
        /\ last.ret.kind = "Ok" =>
              /\ last.calls = last.config.languages
              /\ \A i \in DOMAIN last.results : last.results[i].kind = "Ok"
              /\ last.ret.val.config = last.config
              /\ CacheCodes(last.ret.val) = Dedup(last.config.languages)

\* C9 but for the calls that panic
C9_LoadFailFastUnlessPanic ==
    (last.op = "load" /\ last.ret.kind # "Panic") => C9_LoadFailFast

\* C10: set_directory(d) sets the directory to the resolved path when that
\* path is a directory at the time of the call; otherwise it returns an
\* error and leaves the Config as it was.
C10_SetDirectory ==
    last.op = "set_directory" =>
        LET path == join(Cwd, last.arg)
        IN  IF path_is_dir(path)
            THEN /\ last.ret.kind = "Ok"
                 /\ configuration = [last.pre EXCEPT !.directory = path]
            ELSE /\ last.ret.kind = "Err"
                 /\ last.ret.err = (IF path_exists(path) THEN "NotADirectory"
                                    ELSE "DirectoryNotFound")
                 /\ configuration = last.pre

\* the directory the Config was set to has become a regular file: the call
\* that names it again fails and the Config keeps it
C10_Witness ==
    /\ last.op = "set_directory"
    /\ path_is_file(join(Cwd, last.arg))
    /\ last.ret.kind = "Err"
    /\ configuration.directory = join(Cwd, last.arg)

\* C11: try_get_text_from_language(code, key) does to the instance and the
\* file system what try_get_language(code) does, and returns its error when
\* it fails; otherwise it returns Ok(Some(v)) when v is stored under key at
\* the top level of the language's Object and Ok(None) when no value is:
\* a key with dots in it is looked up as it stands.
C11_TextFromLanguage ==
    last.op = "try_get_text_from_language" =>
        LET out == try_get_language(last.pre, last.lang)
        IN  /\ languages = out.self
            /\ last.io = out.io
            /\ out.ret.kind # "Ok" => last.ret = out.ret
            /\ out.ret.kind = "Ok" =>
                  LET o == out.ret.val.texts.o
                  IN  last.ret = Ok(IF last.key \in DOMAIN o THEN Some(o[last.key])
                                    ELSE None)

\* "menu.title" is asked of a language whose Object holds "title" inside
\* "menu" and no key "menu.title": the answer is None
C11_Witness ==
    /\ last.op = "try_get_text_from_language"
    /\ last.key = "menu.title"
    /\ last.ret = Ok(None)
    /\ LET o == cache_lookup(languages, last.lang).val.texts.o
       IN  /\ "menu" \in DOMAIN o
           /\ is_object(o["menu"])
           /\ "title" \in DOMAIN o["menu"].o

\* C12: every entry of the cache has an Object as its root; LanguageTexts::new
\* returns NotAnObject for a String or an Array and a LanguageTexts of the
\* value for an Object; try_get_language on a file whose text parses to a
\* String or an Array returns NotAnObject and leaves the cache as it was.
C12_RootIsObject ==
    /\ languages # NoInstance =>
          \A i \in DOMAIN languages.langs : is_object(languages.langs[i].texts)
    /\ last.op = "LanguageTexts::new" =>
          IF last.arg.t \in {"String", "Array"}
          THEN last.ret = Err("NotAnObject")
          ELSE last.ret = Ok([language |-> last.lang, texts |-> last.arg])
    /\ (last.op = "try_get_language" /\ ReadsOf(last.io, last.lang) # {}
           /\ from_string(Entry(last.io[1].path).text).kind = "Ok"
           /\ from_string(Entry(last.io[1].path).text).val.t \in {"String", "Array"})
          => /\ last.ret = Err("NotAnObject")
             /\ languages.langs = last.pre.langs

\* the file of a configured code holds an array: the call fails on it, with
\* another language in the cache already
C12_Witness ==
    /\ last.op = "try_get_language"
    /\ last.ret = Err("NotAnObject")
    /\ ReadsOf(last.io, last.lang) # {}
    /\ from_string(Entry(last.io[1].path).text).val.t = "Array"
    /\ Len(languages.langs) = 1

\* C13: two threads in try_get_language on one instance, with nothing between
\* the cache lookup and the push that keeps the other out: when both have
\* missed the cache for one code and both have returned Ok, both have
\* appended and the cache holds two entries for the code; a cache hit appends
\* nothing, so a code never has more entries than there are threads.
C13_RaceAppendsTwice ==
    /\ \A a, b \in Callers :
          (/\ a # b
           /\ callers[a].pc = "done" /\ callers[b].pc = "done"
           /\ callers[a].lang = callers[b].lang
           /\ callers[a].missed /\ callers[b].missed
           /\ callers[a].ret.kind = "Ok" /\ callers[b].ret.kind = "Ok")
              => Cardinality(EntriesOf(languages, callers[a].lang)) = 2
    /\ languages # NoInstance =>
          \A l \in Codes : Cardinality(EntriesOf(languages, l)) <= Cardinality(Callers)

\* both threads missed the cache for "es", both read its file, both pushed
C13_Witness ==
    /\ \A c \in Callers :
          /\ callers[c].pc = "done"
          /\ callers[c].lang = "es"
          /\ callers[c].missed
          /\ callers[c].ret.kind = "Ok"
    /\ Cardinality(EntriesOf(languages, "es")) = 2

ConfigOps == {"Config::default", "add_language", "set_directory", "change_format"}
InstanceOps == {"Languages::new", "try_get_language", "try_get_text_from_language"}
Accepts(self) == {c \in Codes : is_configured(self, c)}
PathsOf(self) == [c \in Codes |-> language_path(self, c)]

\* C14: a call that changes the caller's Config (add_language, set_directory,
\* change_format, a new Config::default) leaves the codes the instance
\* accepts and the path it looks each code up at as they were, and a
\* Languages::new, try_get_language or try_get_text_from_language call leaves
\* the caller's Config as it was.
C14_ConfigSnapshot ==
    [][/\ (last'.op \in ConfigOps /\ languages # NoInstance) =>
             /\ Accepts(languages)' = Accepts(languages)
             /\ PathsOf(languages)' = PathsOf(languages)
       /\ (last'.op \in InstanceOps /\ configuration # NoConfig) =>
             configuration' = configuration]_vars

\* the caller has added the code and moved the directory since
\* Languages::new: the instance still refuses the code
C14_Witness ==
    /\ last.op = "try_get_language"
    /\ last.ret = Err("NotConfigured")
    /\ configuration # NoConfig
    /\ contains(configuration.languages, last.lang)
    /\ configuration.directory # languages.config.directory

\* C15: a try_get_language or try_get_text_from_language call that returns an
\* error leaves the instance, its cache with it, as it was before the call;
\* and every call for a configured code that is not in the cache goes to the
\* file system, starting with the exists check, whatever earlier calls for
\* the code returned.
C15_FailuresNotCached ==
    /\ (IsCall /\ last.ret.kind = "Err") => languages = last.pre
    /\ (IsCall /\ contains(last.pre.config.languages, last.lang)
               /\ EntriesOf(last.pre, last.lang) = {})
          => /\ last.io # <<>>
             /\ last.io[1] = Access("exists", join(last.pre.config.directory,
                                                   last.lang \o feature_extension),
                                    last.lang)

\* a try_get_text_from_language call succeeds on a code whose file an
\* earlier call on the instance read and failed on
C15_Witness ==
    /\ last.op = "try_get_text_from_language"
    /\ last.readBefore
    /\ ~last.loadedBefore
    /\ last.ret.kind = "Ok"
    /\ Len(languages.langs) = Len(last.pre.langs) + 1

====
